---------------------------- MODULE Spec2Model ----------------------------
(***************************************************************************)
(* A model of the minimax crate: the Score / MoveStats orders, the         *)
(* depth-aware LRU TranspositionTable, the alpha-beta Minimax engine (as    *)
(* an explicit call stack, one frame per call of max / min) and the         *)
(* NonBlockingMinimax iterative-deepening driver (controller, worker and    *)
(* the three mpsc channels between them).                                   *)
(*                                                                         *)
(* The specifications share the variables:                                 *)
(*   SpecScenario    the engine on the boards of tests::test_minimax        *)
(*   SpecOrd         the orders of Score and MoveStats on arbitrary operands *)
(*   SpecTT          a TranspositionTable driven by arbitrary get / insert *)
(*   SpecSearch      a Minimax engine queried directly through minimax()   *)
(*   SpecAnySize     the same engine constructed with any capacity          *)
(*   SpecDriver      a NonBlockingMinimax with its worker thread           *)
(*   SpecDriverFair  the same driver under fair scheduling                 *)
(***************************************************************************)
EXTENDS Integers, Sequences, FiniteSets, TLC

VARIABLES
    tt,            \* SpecTT: the TranspositionTable under test
    recency,       \* SpecTT history: keys ever accessed, least recent first
    lastOp,        \* SpecTT history: the last get / insert and what it did
    ordOp,         \* SpecOrd: the last comparison, its operands and its value
    ally_ttable,   \* Minimax.ally_ttable
    enemy_ttable,  \* Minimax.enemy_ttable
    stopper,       \* number of () tokens waiting in the stop channel
    stack,         \* call stack of max / min, innermost frame last
    retval,        \* value handed back by the call that just returned
    outcome,       \* value minimax() handed to its caller, not yet consumed
    query,         \* arguments of the minimax() call in progress
    answers,       \* SpecSearch history: completed queries with their results
    sender,        \* work channel, controller -> worker (MinimaxArgs)
    receiver,      \* result channel, worker -> controller
    worker,        \* worker thread: pc, args, best, plies
    ctrl,          \* controller: pc and what its last stop returned
    hist,          \* history of the run: starts, stops, searches served,
                   \* completed plies, replies collected; in SpecQueue also
                   \* the arguments of each start and the number of starts
                   \* made before each stop
    ghost          \* history of the engine: finished explorations and, per
                   \* query, recursive calls (descents), those of them that
                   \* returned on the fail state (fails) or from the table
                   \* (hits), and the node counts the table handed out

vars == <<tt, recency, lastOp, ordOp, ally_ttable, enemy_ttable, stopper,
          stack, retval, outcome, query, answers, sender, receiver, worker,
          ctrl, hist, ghost>>

ttVars     == <<tt, recency, lastOp, ordOp>>
engineVars == <<ally_ttable, enemy_ttable, stopper, stack, retval, outcome,
                query, ghost>>
driverVars == <<sender, receiver, worker, ctrl, hist>>

(***************************************************************************)
(* Option<T>: None is the empty sequence, Some(x) the one-element sequence. *)
(***************************************************************************)
None == <<>>
Some(x) == <<x>>
IsSome(o) == Len(o) = 1
Unwrap(o) == o[1]

(***************************************************************************)
(* Team and Score.                                                         *)
(***************************************************************************)
Ally == "Ally"
Enemy == "Enemy"
Team == {Ally, Enemy}

other_team(t) == IF t = Enemy THEN Ally ELSE Enemy

Lose == [tag |-> "Lose", val |-> 0]
Win == [tag |-> "Win", val |-> 0]
Heuristic(v) == [tag |-> "Heuristic", val |-> v]

\* (mutant) the variants declared in the order Heuristic, Lose, Win
DiscriminantHeuristicFirst(s) ==
    IF s.tag = "Heuristic" THEN 0 ELSE IF s.tag = "Lose" THEN 1 ELSE 2

\* Position of the variant in the enum declaration (derive(PartialOrd, Ord)
\* compares variants by declaration order, then by payload).
Discriminant(s) ==
    IF s.tag = "Lose" THEN 0 ELSE IF s.tag = "Heuristic" THEN 1 ELSE 2

IntCmp(a, b) == IF a < b THEN "Less" ELSE IF a = b THEN "Equal" ELSE "Greater"

ScoreCmp(a, b) ==
    IF Discriminant(a) # Discriminant(b)
    THEN IntCmp(Discriminant(a), Discriminant(b))
    ELSE IF a.tag = "Heuristic" THEN IntCmp(a.val, b.val) ELSE "Equal"

ScoreGt(a, b) == ScoreCmp(a, b) = "Greater"
ScoreLt(a, b) == ScoreCmp(a, b) = "Less"
ScoreGe(a, b) == ScoreCmp(a, b) # "Less"

\* a Score below / above the neutral baseline Heuristic(0)
BelowBaseline(s) == s = Lose \/ (s.tag = "Heuristic" /\ s.val < 0)
AboveBaseline(s) == s = Win \/ (s.tag = "Heuristic" /\ s.val > 0)

(***************************************************************************)
(* MoveStats and its two comparisons.                                      *)
(***************************************************************************)
MoveStats(mv, score, turns, nodes) ==
    [mv |-> mv, score |-> score, turns |-> turns, nodes_visited |-> nodes]

\* (mutant) the turn comparisons of the two branches exchanged
cmpTurnsExchanged(self, other) ==
    LET c == ScoreCmp(self.score, other.score) IN
    IF c # "Equal" THEN c
    ELSE LET z == ScoreCmp(self.score, Heuristic(0)) IN
         IF z = "Less" THEN IntCmp(other.turns, self.turns)
         ELSE IF z = "Equal" THEN "Equal"
         ELSE IntCmp(self.turns, other.turns)

\* impl Ord for MoveStats (used by the maximizer)
cmp(self, other) ==
    LET c == ScoreCmp(self.score, other.score) IN
    IF c # "Equal" THEN c
    ELSE LET z == ScoreCmp(self.score, Heuristic(0)) IN
         IF z = "Less" THEN IntCmp(self.turns, other.turns)
         ELSE IF z = "Equal" THEN "Equal"
         ELSE IntCmp(other.turns, self.turns)

\* MoveStats::enemy_cmp (used by the minimizer)
enemy_cmp(self, other) ==
    LET c == ScoreCmp(self.score, other.score) IN
    IF c # "Equal" THEN c
    ELSE LET z == ScoreCmp(self.score, Heuristic(0)) IN
         IF z = "Less" THEN IntCmp(other.turns, self.turns)
         ELSE IF z = "Equal" THEN "Equal"
         ELSE IntCmp(self.turns, other.turns)

(***************************************************************************)
(* TranspositionTable over an LruCache.  The cache is a capacity and the   *)
(* resident entries in recency order, least recently used first.           *)
(***************************************************************************)
Entry(k, v, d) == [key |-> k, val |-> v, depth |-> d]

TTNew(capacity) == [capacity |-> capacity, entries |-> <<>>]

\* index of the entry of key k, 0 when k is not resident
Find(entries, k) ==
    IF \E i \in 1..Len(entries) : entries[i].key = k
    THEN CHOOSE i \in 1..Len(entries) : entries[i].key = k
    ELSE 0

Without(entries, i) ==
    [j \in 1..(Len(entries) - 1) |-> IF j < i THEN entries[j] ELSE entries[j + 1]]

\* (mutant) a lookup that leaves the recency order alone
RefreshNever(entries, k) == entries

\* LruCache::get_mut: a resident key becomes the most recently used
Refresh(entries, k) ==
    LET i == Find(entries, k) IN
    IF i = 0 THEN entries ELSE Append(Without(entries, i), entries[i])

\* LruCache::insert: store as most recently used, then drop least recently
\* used entries while the cache is over capacity
LruInsert(t, e) ==
    LET i == Find(t.entries, e.key)
        kept == IF i = 0 THEN t.entries ELSE Without(t.entries, i)
        all == Append(kept, e)
    IN [t EXCEPT !.entries = IF Len(all) > t.capacity THEN Tail(all) ELSE all]

\* (mutant) the stored depth is not compared with the required one
TTGetAnyDepth(t, board, depth) ==
    LET i == Find(t.entries, board) IN
    [table |-> [t EXCEPT !.entries = Refresh(t.entries, board)],
     result |-> IF i # 0 THEN Some(t.entries[i].val) ELSE None]

\* (mutant) an entry of exactly the required depth is not returned
TTGetStrict(t, board, depth) ==
    LET i == Find(t.entries, board) IN
    [table |-> [t EXCEPT !.entries = Refresh(t.entries, board)],
     result |-> IF i # 0 /\ t.entries[i].depth > depth
                THEN Some(t.entries[i].val) ELSE None]

\* TranspositionTable::get: the table afterwards and the value returned
TTGet(t, board, depth) ==
    LET i == Find(t.entries, board) IN
    [table |-> [t EXCEPT !.entries = Refresh(t.entries, board)],
     result |-> IF i # 0 /\ t.entries[i].depth >= depth
                THEN Some(t.entries[i].val) ELSE None]

\* (mutant) unconditional overwrite
TTInsertAlways(t, board, mv, depth) ==
    LruInsert([t EXCEPT !.entries = Refresh(t.entries, board)],
              Entry(board, mv, depth))

\* TranspositionTable::insert
TTInsert(t, board, mv, depth) ==
    LET i == Find(t.entries, board)
        touched == [t EXCEPT !.entries = Refresh(t.entries, board)]
    IN IF i # 0 /\ t.entries[i].depth >= depth
       THEN touched
       ELSE LruInsert(touched, Entry(board, mv, depth))

Resident(t) == {t.entries[i].key : i \in 1..Len(t.entries)}

(***************************************************************************)
(* Boards.  A board lists the positions its moves lead to (the same list   *)
(* for both teams, as the crate's test board does), whether the game is    *)
(* over there, and its static score.  Moves are 0-based indices.           *)
(***************************************************************************)
Board(kids, over, score) == [kids |-> kids, over |-> over, score |-> score]

gen_ally_moves(b) == [i \in 1..Len(b.kids) |-> i - 1]
gen_enemy_moves(b) == [i \in 1..Len(b.kids) |-> i - 1]
do_move(b, mv) == b.kids[mv + 1]
score(b) == b.score
is_game_over(b) == b.over

\* a position with no legal move
Stuck(over, s) == Board(<<>>, over, s)
\* a finished game that still lists a move (SimpleBoard::Leaf)
Leaf(s) == Board(<<Stuck(TRUE, s)>>, TRUE, s)
\* a position in play
Node(kids, s) == Board(kids, FALSE, s)

\* nodes with one or two successors drawn from K, static score s
NodesOver(K, s) ==
    {Node(<<a>>, s) : a \in K} \cup {Node(<<a, b>>, s) : a \in K, b \in K}

Level0 ==
    {Leaf(Heuristic(-1)), Leaf(Heuristic(1)), Leaf(Win),
     Stuck(FALSE, Heuristic(1)), Stuck(TRUE, Heuristic(-1))}

Level1 == NodesOver(Level0, Heuristic(0))

Mid1 ==
    {Leaf(Heuristic(-1)), Leaf(Heuristic(1)), Leaf(Win),
     Node(<<Leaf(Win)>>, Heuristic(0)),
     Node(<<Leaf(Heuristic(-1))>>, Heuristic(0)),
     Node(<<Leaf(Heuristic(1)), Leaf(Win)>>, Heuristic(0)),
     Node(<<Leaf(Heuristic(1)), Leaf(Heuristic(-1))>>, Heuristic(0)),
     Node(<<Stuck(FALSE, Heuristic(1))>>, Heuristic(0))}

Level2 == NodesOver(Mid1, Heuristic(0))

Mid2 ==
    {Node(<<Leaf(Heuristic(-1)),
            Node(<<Leaf(Heuristic(1)), Leaf(Win)>>, Heuristic(0))>>,
          Heuristic(0)),
     Node(<<Node(<<Leaf(Heuristic(1)), Leaf(Win)>>, Heuristic(0))>>,
          Heuristic(0)),
     Node(<<Leaf(Heuristic(1))>>, Heuristic(0)),
     Leaf(Heuristic(-1))}

Level3 == NodesOver(Mid2, Heuristic(0))

\* nodes with three successors, so that a sibling loop has a child that is
\* neither its first nor its last
Wide1 ==
    LET K == {Leaf(Heuristic(-1)), Leaf(Heuristic(1)), Leaf(Win)}
    IN {Node(<<a, b, c>>, Heuristic(0)) : a \in K, b \in K, c \in K}

GameTrees == Level0 \cup Level1 \cup Wide1 \cup Level2 \cup Level3

(***************************************************************************)
(* The Minimax engine.  max and min are the same procedure up to the side  *)
(* constants below; a frame is one call of max (side Ally) or min (side    *)
(* Enemy).                                                                 *)
(***************************************************************************)
GenMoves(side, b) == IF side = Ally THEN gen_ally_moves(b) ELSE gen_enemy_moves(b)

\* the result of a side that cannot move
FailState(side) == MoveStats(None, IF side = Ally THEN Lose ELSE Win, 0, 0)

\* the result at the horizon or at a finished game
LeafResult(b) == MoveStats(None, score(b), 0, 0)

\* (mutant) the horizon is tested before the fail state
EarlyReturnLeafFirst(side, b, plies) ==
    IF plies = 0 \/ is_game_over(b) THEN Some(LeafResult(b))
    ELSE IF Len(GenMoves(side, b)) = 0 THEN Some(FailState(side))
    ELSE None

\* the early returns of max / min that need no table: the fail state first,
\* then the horizon / finished game; None when the call goes on to its table
EarlyReturn(side, b, plies) ==
    IF Len(GenMoves(side, b)) = 0 THEN Some(FailState(side))
    ELSE IF plies = 0 \/ is_game_over(b) THEN Some(LeafResult(b))
    ELSE None

\* (mutant) the child's own call is not counted
AbsorbUncounted(side, mv, child, best) ==
    LET b1 == IF \/ best.mv = None
                 \/ IF side = Ally THEN cmp(child, best) = "Greater"
                                   ELSE enemy_cmp(child, best) = "Less"
              THEN [best EXCEPT !.mv = Some(mv), !.score = child.score,
                                !.turns = child.turns + 1]
              ELSE best
    IN [b1 EXCEPT !.nodes_visited = @ + child.nodes_visited]

\* "let mut best" before the sibling loop
InitBest(side) == MoveStats(None, IF side = Ally THEN Lose ELSE Win, 0, 0)

\* does the child's result replace the best so far?
Adopt(side, child, best) ==
    \/ best.mv = None
    \/ IF side = Ally THEN cmp(child, best) = "Greater"
                      ELSE enemy_cmp(child, best) = "Less"

\* best after one child: adoption, then the node count
Absorb(side, mv, child, best) ==
    LET b1 == IF Adopt(side, child, best)
              THEN [best EXCEPT !.mv = Some(mv), !.score = child.score,
                                !.turns = child.turns + 1]
              ELSE best
    IN [b1 EXCEPT !.nodes_visited = @ + child.nodes_visited + 1]

\* (mutant) alpha takes the child's score without the test
NewAlphaUntested(side, alpha, best, child) ==
    IF side = Ally THEN child.score ELSE alpha

\* alpha after one child (max), beta after one child (min)
NewAlpha(side, alpha, best, child) ==
    IF side = Ally /\ ScoreGt(best.score, alpha) THEN child.score ELSE alpha

NewBeta(side, beta, best, child) ==
    IF side = Enemy /\ ScoreLt(best.score, beta) THEN child.score ELSE beta

\* (mutant) the sibling loop never breaks
CutoffNever(alpha, beta) == FALSE

\* "if alpha >= beta { break; }"
Cutoff(alpha, beta) == ScoreGe(alpha, beta)

Frame(side, board, plies, alpha, beta) ==
    [side |-> side, board |-> board, plies |-> plies, alpha |-> alpha,
     beta |-> beta, pc |-> "entry", moves |-> <<>>, idx |-> 0,
     best |-> InitBest(side)]

Top == stack[Len(stack)]
Pop(st) == SubSeq(st, 1, Len(st) - 1)
ReplaceTop(st, f) == [st EXCEPT ![Len(st)] = f]

TableOf(side) == IF side = Ally THEN ally_ttable ELSE enemy_ttable

\* assignment to the table of the given side, the other one kept
SetTable(side, t) ==
    IF side = Ally
    THEN ally_ttable' = t /\ enemy_ttable' = enemy_ttable
    ELSE enemy_ttable' = t /\ ally_ttable' = ally_ttable

\* the exploration of a node whose sibling loop ran to its end
Explored(f, best) ==
    [side |-> f.side, board |-> f.board, plies |-> f.plies, result |-> best]

\* (mutant) the stop channel is polled after the early returns only
StopObservedLate ==
    stopper > 0 /\ EarlyReturn(Top.side, Top.board, Top.plies) = None

\* has the stop token been observed at the entry of this call?
StopObserved == stopper > 0

\* Entry of max / min up to its first recursive call or its early return.
Call ==
    /\ stack # <<>>
    /\ retval = <<>>
    /\ Top.pc = "entry"
    /\ LET f == Top
           moves == GenMoves(f.side, f.board)
           early == EarlyReturn(f.side, f.board, f.plies)
           hit == TTGet(TableOf(f.side), f.board, f.plies)
       IN IF StopObserved
          THEN /\ stopper' = stopper - 1
               /\ stack' = Pop(stack)
               /\ retval' = Some(None)
               /\ UNCHANGED <<ally_ttable, enemy_ttable, ghost>>
          ELSE IF IsSome(early)
          THEN /\ stack' = Pop(stack)
               /\ retval' = Some(early)
               /\ ghost' = [ghost EXCEPT !.fails =
                               @ + (IF Len(moves) = 0 /\ Len(stack) > 1
                                    THEN 1 ELSE 0)]
               /\ UNCHANGED <<stopper, ally_ttable, enemy_ttable>>
          ELSE IF IsSome(hit.result)
          THEN /\ SetTable(f.side, hit.table)
               /\ stack' = Pop(stack)
               /\ retval' = Some(hit.result)
               /\ ghost' = [ghost EXCEPT
                               !.hits = @ + (IF Len(stack) > 1 THEN 1 ELSE 0),
                               !.hitNodes = @ + Unwrap(hit.result).nodes_visited]
               /\ UNCHANGED stopper
          ELSE /\ SetTable(f.side, hit.table)
               /\ stack' = Append(
                      ReplaceTop(stack, [f EXCEPT !.pc = "wait", !.moves = moves,
                                                  !.idx = 1]),
                      Frame(other_team(f.side), do_move(f.board, moves[1]),
                            f.plies - 1, f.alpha, f.beta))
               /\ ghost' = [ghost EXCEPT !.descents = @ + 1]
               /\ UNCHANGED <<stopper, retval>>
    /\ UNCHANGED <<outcome, query>>
    /\ UNCHANGED <<ttVars, driverVars, answers>>

\* The sibling loop after a child returned a result: the result is
\* absorbed, the bound is updated, then either the next sibling is entered
\* (push) or the loop ends and the result is inserted into the side's table
\* and returned (ret).
Advance(f, child, table) ==
    LET best == Absorb(f.side, f.moves[f.idx], child, f.best)
        alpha == NewAlpha(f.side, f.alpha, best, child)
        beta == NewBeta(f.side, f.beta, best, child)
    IN IF Cutoff(alpha, beta) \/ f.idx = Len(f.moves)
       THEN [table |-> TTInsert(table, f.board, best, f.plies),
             frames |-> <<>>,
             ret |-> Some(Some(best)),
             explored |-> {Explored(f, best)}]
       ELSE [table |-> table,
             frames |-> <<[f EXCEPT !.best = best, !.alpha = alpha,
                                   !.beta = beta, !.idx = f.idx + 1],
                          Frame(other_team(f.side),
                                do_move(f.board, f.moves[f.idx + 1]),
                                f.plies - 1, alpha, beta)>>,
             ret |-> <<>>,
             explored |-> {}]

\* (mutant) a cancelled child makes the parent store what it has so far
ReturnStepCachesPartial(f, r, table) ==
    IF r = None
    THEN [table |-> TTInsert(table, f.board, f.best, f.plies),
          frames |-> <<>>, ret |-> Some(None), explored |-> {}]
    ELSE Advance(f, Unwrap(r), table)

\* What the call f does with the value r its child returned: "None => return
\* None" without touching the table, otherwise the sibling loop goes on.
ReturnStep(f, r, table) ==
    IF r = None
    THEN [table |-> table, frames |-> <<>>, ret |-> Some(None), explored |-> {}]
    ELSE Advance(f, Unwrap(r), table)

\* The child returns into its caller.
Return ==
    /\ stack # <<>>
    /\ retval # <<>>
    /\ Top.pc = "wait"
    /\ LET f == Top
           step == ReturnStep(f, retval[1], TableOf(f.side))
       IN /\ SetTable(f.side, step.table)
          /\ stack' = Pop(stack) \o step.frames
          /\ retval' = step.ret
          /\ ghost' = [ghost EXCEPT
                         !.explored = @ \cup step.explored,
                         !.descents = @ + (IF step.frames = <<>> THEN 0 ELSE 1)]
    /\ UNCHANGED <<stopper, outcome, query>>
    /\ UNCHANGED <<ttVars, driverVars, answers>>

\* Minimax::minimax up to the call of max / min
MinimaxCall(board, turn, plies) ==
    /\ stack = <<>> /\ retval = <<>> /\ outcome = <<>>
    /\ query' = Some([board |-> board, turn |-> turn, plies |-> plies])
    /\ stack' = <<Frame(turn, board, plies, Lose, Win)>>
    /\ ghost' = [ghost EXCEPT !.descents = 0, !.fails = 0, !.hits = 0,
                              !.hitNodes = 0]
    /\ UNCHANGED <<ally_ttable, enemy_ttable, stopper, retval, outcome>>

\* "optimal.nodes_visited += 1"
CountRoot(r) ==
    IF IsSome(r) THEN Some([Unwrap(r) EXCEPT !.nodes_visited = @ + 1]) ELSE None

\* Minimax::minimax after max / min returned
MinimaxReturn ==
    /\ stack = <<>>
    /\ retval # <<>>
    /\ outcome' = Some(CountRoot(retval[1]))
    /\ retval' = <<>>
    /\ UNCHANGED <<ally_ttable, enemy_ttable, stopper, stack, query, ghost>>
    /\ UNCHANGED <<ttVars, driverVars, answers>>

(***************************************************************************)
(* SpecSearch: a Minimax engine called directly.  The caller issues up to  *)
(* MaxQueries calls of minimax(), one after the other; the holder of the   *)
(* stop channel's sending end may put up to MaxStops tokens into it.        *)
(***************************************************************************)
MaxPlies == 3
MaxQueries == 2
MaxStops == 1

\* capacities the engine is constructed with (the test uses 100)
TableSizes == {1, 100}

\* the positions one move away from b
Related(b) == {b.kids[i] : i \in 1..Len(b.kids)}

\* the calls that may follow the call q on the same engine: q again, or, the
\* game having advanced by one move, the other team's turn on the position
\* reached, with one ply less
FollowUps(q) ==
    {q} \cup (IF q.plies = 0 THEN {}
              ELSE {[board |-> b, turn |-> other_team(q.turn),
                     plies |-> q.plies - 1] : b \in Related(q.board)})

\* the arguments of a completed call
ArgsOf(a) == [board |-> a.board, turn |-> a.turn, plies |-> a.plies]

\* the first call is any board, team and budget
FirstQueries ==
    {[board |-> b, turn |-> t, plies |-> p] :
        b \in GameTrees, t \in Team, p \in 0..MaxPlies}

NoOp == [kind |-> "none"]
IdleTT == tt = TTNew(1) /\ recency = <<>> /\ lastOp = NoOp /\ ordOp = NoOp
IdleWorker == [pc |-> "recv", args |-> None, best |-> None, plies |-> 0]
IdleCtrl == [pc |-> "idle", last |-> None]
HistInit == [starts |-> 0, stops |-> 0, served |-> 0, plyLog |-> <<>>,
             replies |-> <<>>, started |-> <<>>, stopAfter |-> <<>>]
GhostInit == [explored |-> {}, descents |-> 0, fails |-> 0, hits |-> 0,
              hitNodes |-> 0]

EngineInit(ttable_size) ==
    /\ ally_ttable = TTNew(ttable_size)
    /\ enemy_ttable = TTNew(ttable_size)
    /\ stopper = 0
    /\ stack = <<>>
    /\ retval = <<>>
    /\ outcome = <<>>
    /\ query = None
    /\ ghost = GhostInit

InitSearch ==
    /\ \E n \in TableSizes : EngineInit(n)
    /\ answers = <<>>
    /\ IdleTT
    /\ sender = <<>> /\ receiver = <<>>
    /\ worker = IdleWorker /\ ctrl = IdleCtrl
    /\ hist = HistInit

\* the caller calls minimax(board, turn, plies)
Query ==
    /\ query = None
    /\ Len(answers) < MaxQueries
    /\ \E q \in (IF answers = <<>> THEN FirstQueries
                  ELSE FollowUps(ArgsOf(answers[Len(answers)]))) :
          MinimaxCall(q.board, q.turn, q.plies)
    /\ UNCHANGED <<ttVars, driverVars, answers>>

\* the caller receives the value of minimax()
Collect ==
    /\ outcome # <<>>
    /\ answers' = Append(answers,
                         [board |-> Unwrap(query).board,
                          turn |-> Unwrap(query).turn,
                          plies |-> Unwrap(query).plies,
                          result |-> outcome[1],
                          descents |-> ghost.descents,
                          fails |-> ghost.fails,
                          hits |-> ghost.hits,
                          hitNodes |-> ghost.hitNodes])
    /\ outcome' = <<>>
    /\ query' = None
    /\ UNCHANGED <<ttVars, driverVars, ally_ttable, enemy_ttable, stopper,
                   stack, retval, ghost>>

\* a () is sent on the stop channel
SendStop ==
    /\ hist.stops < MaxStops
    /\ stopper' = stopper + 1
    /\ hist' = [hist EXCEPT !.stops = @ + 1]
    /\ UNCHANGED <<ttVars, ally_ttable, enemy_ttable, stack, retval, outcome,
                   query, ghost, answers, sender, receiver, worker, ctrl>>

NextSearch == Query \/ Call \/ Return \/ MinimaxReturn \/ Collect \/ SendStop

SpecSearch == InitSearch /\ [][NextSearch]_vars

(***************************************************************************)
(* Exhaustive minimax: no pruning, no table, same comparison of outcomes.  *)
(***************************************************************************)
RECURSIVE ExSearch(_, _, _), ExLoop(_, _, _, _, _)
ExSearch(side, b, plies) ==
    LET moves == GenMoves(side, b) IN
    IF Len(moves) = 0 THEN FailState(side)
    ELSE IF plies = 0 \/ is_game_over(b) THEN LeafResult(b)
    ELSE ExLoop(side, b, plies, 1, InitBest(side))

ExLoop(side, b, plies, i, best) ==
    LET moves == GenMoves(side, b) IN
    IF i > Len(moves) THEN best
    ELSE ExLoop(side, b, plies, i + 1,
                Absorb(side, moves[i],
                       ExSearch(other_team(side), do_move(b, moves[i]), plies - 1),
                       best))

(***************************************************************************)
(* Claims about the engine called directly (SpecSearch).                   *)
(***************************************************************************)
\* the first query ran to its end on the freshly constructed engine
FirstDone == Len(answers) >= 1 /\ IsSome(answers[1].result)
FirstResult == Unwrap(answers[1].result)
FirstExhaustive == ExSearch(answers[1].turn, answers[1].board, answers[1].plies)

\* C1 (alpha-beta equivalence): a completed minimax() on an engine with empty
\* tables returns the move and the score that exhaustive minimax of the same
\* board, team and ply budget returns.
C1_AlphaBetaEquivalence ==
    FirstDone =>
        /\ FirstResult.mv = FirstExhaustive.mv
        /\ FirstResult.score = FirstExhaustive.score

\* C6 (fail-state priority): a call of max / min entered with no stop pending
\* on a board without a legal move for its side returns at once score Lose
\* (max) or Win (min), no move, zero turns, zero nodes, whatever the ply
\* budget, is_game_over and the static score are.
C6_FailStatePriority ==
    [][(/\ stack # <<>>
        /\ Top.pc = "entry"
        /\ stopper = 0
        /\ Len(GenMoves(Top.side, Top.board)) = 0
        /\ stack' # stack)
       => (/\ stack' = Pop(stack)
           /\ retval' = Some(Some(MoveStats(
                  None, IF Top.side = Ally THEN Lose ELSE Win, 0, 0))))]_vars

\* the minimizer moved into a finished game without moves, where the
\* maximizer, with budget 0, answered Lose: once as the child of the first
\* call, once called directly
C6_Witness ==
    /\ Len(answers) = 2
    /\ ArgsOf(answers[1]) =
          [board |-> Node(<<Stuck(TRUE, Heuristic(-1))>>, Heuristic(0)),
           turn |-> Enemy, plies |-> 1]
    /\ answers[1].result = Some(MoveStats(Some(0), Lose, 1, 2))
    /\ ArgsOf(answers[2]) =
          [board |-> Stuck(TRUE, Heuristic(-1)), turn |-> Ally, plies |-> 0]
    /\ answers[2].result = Some(MoveStats(None, Lose, 0, 1))

\* the lines the moves of the first query's root lead to, searched exhaustively
FirstLine(i) ==
    ExSearch(other_team(answers[1].turn),
             do_move(answers[1].board, GenMoves(answers[1].turn, answers[1].board)[i]),
             answers[1].plies - 1)
FirstWins ==
    {i \in 1..Len(answers[1].board.kids) : FirstLine(i).score = Win}

\* C7 (turn tie-break on wins): Ally to move, at least two moves lead to a
\* line resolving to Win within the budget: the move returned is a winning
\* one whose line has the fewest turns.
C7_FasterWinPreferred ==
    (/\ FirstDone
     /\ answers[1].turn = Ally
     /\ EarlyReturn(Ally, answers[1].board, answers[1].plies) = None
     /\ Cardinality(FirstWins) >= 2)
    => \E i \in FirstWins :
         /\ FirstResult.mv = Some(GenMoves(Ally, answers[1].board)[i])
         /\ \A j \in FirstWins : FirstLine(i).turns <= FirstLine(j).turns

\* calls i and i + 1 are the same call and neither was cancelled
SameQueryTwice(i) ==
    /\ i + 1 <= Len(answers)
    /\ ArgsOf(answers[i]) = ArgsOf(answers[i + 1])
    /\ IsSome(answers[i].result) /\ IsSome(answers[i + 1].result)

\* C8 (memoization transparency): the same minimax() call made twice in a row
\* returns the same move, score, turns and nodes_visited, and the second call
\* makes no recursive call: it ends at the root (its table entry, or the
\* root's early return).
C8_MemoizationTransparency ==
    \A i \in 1..Len(answers) :
        SameQueryTwice(i) =>
            /\ answers[i + 1].result = answers[i].result
            /\ answers[i + 1].descents = 0

\* a search that recursed, repeated and answered from the table
C8_Witness ==
    /\ SameQueryTwice(1)
    /\ answers[1].descents > 2
    /\ answers[2].descents = 0
    /\ answers[2].result = answers[1].result
    /\ answers[1].plies = MaxPlies
    /\ answers[1].board \in Resident(TableOf(answers[1].turn))

\* C11 as stated (nodes_visited accounting): the nodes_visited of a completed
\* minimax() equals the number of recursive max / min calls of the query
\* that did not return on a table hit or on the fail state, plus one.
C11_NodesVisitedUnshortcut ==
    \A i \in 1..Len(answers) :
        IsSome(answers[i].result) =>
            Unwrap(answers[i].result).nodes_visited
                = (answers[i].descents - answers[i].hits - answers[i].fails) + 1

\* C11 as amended (nodes_visited accounting): the nodes_visited of a
\* completed minimax() equals the number of all recursive max / min calls of
\* the query, those that returned at once included, plus the nodes_visited
\* stored with every table entry a call of the query was answered from, plus
\* one for the root call.
C11_NodesVisitedAccounting ==
    \A i \in 1..Len(answers) :
        IsSome(answers[i].result) =>
            Unwrap(answers[i].result).nodes_visited
                = answers[i].descents + answers[i].hitNodes + 1

\* a query that recursed, met a fail state and was answered in part from an
\* entry left by the query before it
C11_Witness ==
    /\ Len(answers) = 2
    /\ IsSome(answers[2].result)
    /\ answers[2].descents >= 2
    /\ answers[2].hits >= 1
    /\ answers[2].fails >= 1
    /\ answers[2].hitNodes >= 1

\* a child's result returns into a call of the given side, the call having
\* adopted an earlier child already
LaterChildReturns(side) ==
    /\ stack # <<>>
    /\ Top.pc = "wait"
    /\ Top.side = side
    /\ Top.best.mv # None
    /\ retval # <<>>
    /\ retval[1] # None
    /\ stack' # stack

\* the best of that call after the step
BestAfter ==
    IF Len(stack') < Len(stack) THEN Unwrap(Unwrap(retval'))
    ELSE stack'[Len(stack)].best

\* the line through the returning child, as seen from the call: one turn more
ChildLine == [Unwrap(retval[1]) EXCEPT !.turns = @ + 1]

\* C16 (minimizer adoption rule): at a minimizer node a later child replaces
\* the best so far only if its line is strictly less than the best one in
\* the order of MoveStats::cmp, the order the maximizer uses (so, for equal
\* scores, fewer turns below the baseline and more turns above it).
C16_MinimizerAdoption ==
    [][(/\ LaterChildReturns(Enemy)
        /\ BestAfter.mv = Some(Top.moves[Top.idx]))
       => cmp(ChildLine, Top.best) = "Less"]_vars

\* the moves of the first query's root all lead to lines of one score, and
\* that score is below the baseline
FirstTiedBelow ==
    LET n == Len(answers[1].board.kids) IN
    /\ n >= 2
    /\ \A i \in 1..n : FirstLine(i).score = FirstLine(1).score
    /\ BelowBaseline(FirstLine(1).score)

\* C17 (loss is delayed): Ally to move, every move leads to a line of the
\* same below-baseline score: the move returned is one whose line has the
\* greatest turn count, wherever it stands in the generation order.
C17_LossDelayed ==
    (/\ FirstDone
     /\ answers[1].turn = Ally
     /\ EarlyReturn(Ally, answers[1].board, answers[1].plies) = None
     /\ FirstTiedBelow)
    => \E i \in 1..Len(answers[1].board.kids) :
         /\ FirstResult.mv = Some(GenMoves(Ally, answers[1].board)[i])
         /\ \A j \in 1..Len(answers[1].board.kids) :
               FirstLine(i).turns >= FirstLine(j).turns

\* the greater / the lesser of two Scores
ScoreMax(a, b) == IF ScoreGe(a, b) THEN a ELSE b
ScoreMin(a, b) == IF ScoreGe(a, b) THEN b ELSE a

\* the bounds the i-th call on the stack st was entered with: those of its
\* caller, which stands still while the call runs, or (Lose, Win) at the root
AlphaOnEntry(st, i) == IF i = 1 THEN Lose ELSE st[i - 1].alpha
BetaOnEntry(st, i) == IF i = 1 THEN Win ELSE st[i - 1].beta

\* every call that is inside its sibling loop holds the bounds the claim says
BoundsAsClaimed(st) ==
    \A i \in 1..Len(st) :
        st[i].pc = "wait" =>
            /\ IF st[i].side = Ally
               THEN /\ st[i].alpha = ScoreMax(AlphaOnEntry(st, i), st[i].best.score)
                    /\ st[i].beta = BetaOnEntry(st, i)
               ELSE /\ st[i].beta = ScoreMin(BetaOnEntry(st, i), st[i].best.score)
                    /\ st[i].alpha = AlphaOnEntry(st, i)
            /\ ScoreLt(st[i].alpha, st[i].beta)

\* C19 (bound updates): inside a maximizer call alpha never decreases and,
\* after each child, is the greater of alpha on entry and the best score so
\* far; inside a minimizer call beta never increases and is the lesser of
\* beta on entry and the best score so far; no call goes on to a further
\* sibling with alpha >= beta.
C19_BoundUpdates ==
    [][/\ BoundsAsClaimed(stack')
       /\ \A i \in 1..Len(stack) :
             (i <= Len(stack') /\ stack[i].pc = "wait" /\ stack'[i].pc = "wait")
             => /\ ScoreGe(stack'[i].alpha, stack[i].alpha)
                /\ ScoreGe(stack[i].beta, stack'[i].beta)]_vars

\* a maximizer that raised alpha and a minimizer that lowered beta, both on
\* their way to a second child
C19_Witness ==
    /\ \E i \in 1..Len(stack) :
          /\ stack[i].side = Ally /\ stack[i].pc = "wait" /\ stack[i].idx = 2
          /\ stack[i].alpha # AlphaOnEntry(stack, i)
    /\ \E i \in 1..Len(stack) :
          /\ stack[i].side = Enemy /\ stack[i].pc = "wait" /\ stack[i].idx = 2
          /\ stack[i].beta # BetaOnEntry(stack, i)

\* C20 (cached entries are exact): between searches every entry of a
\* side's table, stored for board b with depth d, holds the score exhaustive
\* minimax of b for that side with budget d yields (no bound left by a cut
\* off sibling loop).
C20_CachedEntriesExact ==
    query = None =>
        \A side \in Team :
            \A i \in 1..Len(TableOf(side).entries) :
                LET e == TableOf(side).entries[i] IN
                e.val.score = ExSearch(side, e.key, e.depth).score

(***************************************************************************)
(* SpecAnySize: the engine constructed with any ttable_size a usize         *)
(* argument admits, 0 included, then called as in SpecSearch.               *)
(***************************************************************************)
AnySizes == {0} \cup TableSizes

InitAnySize ==
    /\ \E n \in AnySizes : EngineInit(n)
    /\ answers = <<>>
    /\ IdleTT
    /\ sender = <<>> /\ receiver = <<>>
    /\ worker = IdleWorker /\ ctrl = IdleCtrl
    /\ hist = HistInit

SpecAnySize == InitAnySize /\ [][NextSearch]_vars

\* C12 (capacity strictly positive): no call of minimax() runs on an engine
\* whose tables have capacity 0 (a construction with capacity 0 would have
\* failed and left no engine to call).
C12_CapacityPositive ==
    query # None =>
        /\ ally_ttable.capacity > 0
        /\ enemy_ttable.capacity > 0

(***************************************************************************)
(* SpecScenario: tests::test_minimax, the three calls of the test made in  *)
(* its order on one engine.  SimpleBoard::Node has no static score          *)
(* (unreachable!()); with the budget of the test it is never asked for.     *)
(***************************************************************************)
SimpleNode(kids) == Node(kids, Heuristic(0))
SimpleLeaf(v) == Leaf(Heuristic(v))

game1 ==
    SimpleNode(<<
        SimpleNode(<<
            SimpleNode(<<
                SimpleNode(<<SimpleLeaf(5), SimpleLeaf(6)>>),
                SimpleNode(<<SimpleLeaf(7), SimpleLeaf(4), SimpleLeaf(5)>>)>>),
            SimpleNode(<<
                SimpleNode(<<SimpleLeaf(3)>>)>>)>>),
        SimpleNode(<<
            SimpleNode(<<
                SimpleNode(<<SimpleLeaf(6)>>),
                SimpleNode(<<SimpleLeaf(6), SimpleLeaf(9)>>)>>),
            SimpleNode(<<
                SimpleNode(<<SimpleLeaf(7)>>)>>)>>),
        SimpleNode(<<
            SimpleNode(<<
                SimpleNode(<<SimpleLeaf(5)>>)>>),
            SimpleNode(<<
                SimpleNode(<<SimpleLeaf(9), SimpleLeaf(8)>>),
                SimpleNode(<<SimpleLeaf(6)>>)>>)>>)>>)

game2 ==
    SimpleNode(<<
        SimpleNode(<<
            SimpleNode(<<
                SimpleNode(<<SimpleLeaf(12), SimpleLeaf(10)>>),
                SimpleNode(<<SimpleLeaf(-18), SimpleLeaf(-7)>>)>>),
            SimpleNode(<<
                SimpleNode(<<SimpleLeaf(6), SimpleLeaf(-17)>>),
                SimpleNode(<<SimpleLeaf(-3), SimpleLeaf(6)>>)>>)>>),
        SimpleNode(<<
            SimpleNode(<<
                SimpleNode(<<SimpleLeaf(-19), SimpleLeaf(-16)>>),
                SimpleNode(<<SimpleLeaf(-4), SimpleLeaf(-6)>>)>>),
            SimpleNode(<<
                SimpleNode(<<SimpleLeaf(-1), SimpleLeaf(6)>>),
                SimpleNode(<<SimpleLeaf(9), SimpleLeaf(15)>>)>>)>>)>>)

\* the calls of minimax() the test makes, in its order
TestCalls ==
    <<[board |-> game1, turn |-> Ally, plies |-> 4],
      [board |-> game2, turn |-> Ally, plies |-> 4],
      [board |-> game2, turn |-> Ally, plies |-> 4]>>

InitScenario ==
    /\ \E n \in TableSizes : EngineInit(n)
    /\ answers = <<>>
    /\ IdleTT
    /\ sender = <<>> /\ receiver = <<>>
    /\ worker = IdleWorker /\ ctrl = IdleCtrl
    /\ hist = HistInit

\* the next call of the test
TestQuery ==
    /\ query = None
    /\ Len(answers) < Len(TestCalls)
    /\ LET q == TestCalls[Len(answers) + 1]
       IN MinimaxCall(q.board, q.turn, q.plies)
    /\ UNCHANGED <<ttVars, driverVars, answers>>

NextScenario == TestQuery \/ Call \/ Return \/ MinimaxReturn \/ Collect

SpecScenario == InitScenario /\ [][NextScenario]_vars

\* C15 (Scenario A): on a fresh engine minimax(game1, Ally, 4) returns move
\* index 1, score Heuristic(6), turns 4 and nodes_visited 25.
C15_ScenarioA ==
    Len(answers) >= 1 =>
        answers[1].result = Some(MoveStats(Some(1), Heuristic(6), 4, 25))

\* the call on game1 was made on the fresh engine and answered after 24
\* recursive calls, none of them from a table
C15_Witness ==
    /\ Len(answers) >= 1
    /\ ArgsOf(answers[1]) = [board |-> game1, turn |-> Ally, plies |-> 4]
    /\ answers[1].descents = 24
    /\ answers[1].hits = 0 /\ answers[1].hitNodes = 0

(***************************************************************************)
(* SpecOrd: the derived order of Score and the Ord of MoveStats, each       *)
(* applied once to arbitrary operands (a comparison has no state to carry   *)
(* from one application to the next).                                       *)
(***************************************************************************)
MaxHeur == 2
MaxTurns == 2

Scores == {Lose, Win} \cup {Heuristic(v) : v \in (0 - MaxHeur)..MaxHeur}

Stats ==
    {MoveStats(mv, s, t, n) :
        mv \in {None, Some(0)}, s \in Scores, t \in 0..MaxTurns, n \in {0, 1}}

InitOrd ==
    /\ IdleTT
    /\ EngineInit(1)
    /\ answers = <<>>
    /\ sender = <<>> /\ receiver = <<>>
    /\ worker = IdleWorker /\ ctrl = IdleCtrl
    /\ hist = HistInit

\* a.cmp(&b) on two Scores
ScoreOrd ==
    /\ ordOp = NoOp
    /\ \E a \in Scores, b \in Scores :
          ordOp' = [kind |-> "Score", a |-> a, b |-> b,
                    result |-> ScoreCmp(a, b)]
    /\ UNCHANGED <<tt, recency, lastOp, engineVars, driverVars, answers>>

\* a.cmp(&b) on two MoveStats
StatsOrd ==
    /\ ordOp = NoOp
    /\ \E a \in Stats, b \in Stats :
          ordOp' = [kind |-> "MoveStats", a |-> a, b |-> b,
                    result |-> cmp(a, b)]
    /\ UNCHANGED <<tt, recency, lastOp, engineVars, driverVars, answers>>

NextOrd == ScoreOrd \/ StatsOrd

SpecOrd == InitOrd /\ [][NextOrd]_vars

\* C13 (TimedScore order): the comparison of two MoveStats is that of their
\* Scores when these differ; for equal Scores below Heuristic(0) (Lose
\* included) more turns is greater, for equal Scores above Heuristic(0) (Win
\* included) fewer turns is greater, and at Heuristic(0) the two are equal
\* whatever their turns.
C13_TimedScoreOrder ==
    ordOp.kind = "MoveStats" =>
        LET a == ordOp.a
            b == ordOp.b
            r == ordOp.result
        IN /\ a.score # b.score => r = ScoreCmp(a.score, b.score)
           /\ (a.score = b.score /\ BelowBaseline(a.score))
                 => r = IntCmp(a.turns, b.turns)
           /\ (a.score = b.score /\ AboveBaseline(a.score))
                 => r = IntCmp(b.turns, a.turns)
           /\ (a.score = b.score /\ a.score = Heuristic(0)) => r = "Equal"

\* two lost lines compared: the longer one is the greater
C13_Witness ==
    /\ ordOp.kind = "MoveStats"
    /\ ordOp.a.score = Lose /\ ordOp.b.score = Lose
    /\ ordOp.a.turns = 2 /\ ordOp.b.turns = 1
    /\ ordOp.result = "Greater"

\* C14 (Score total order): of a < b, a = b, a > b exactly one holds, a < b
\* exactly when b > a; Lose < Heuristic(v) < Win for every v, and
\* Heuristic(x) < Heuristic(y) exactly when x < y.
C14_ScoreTotalOrder ==
    ordOp.kind = "Score" =>
        LET a == ordOp.a
            b == ordOp.b
            lt == ordOp.result = "Less"
            gt == ordOp.result = "Greater"
            eq == a = b
        IN /\ (lt /\ ~eq /\ ~gt) \/ (~lt /\ eq /\ ~gt) \/ (~lt /\ ~eq /\ gt)
           /\ lt <=> ScoreCmp(b, a) = "Greater"
           /\ (a = Lose /\ b.tag = "Heuristic") => lt
           /\ (a.tag = "Heuristic" /\ b = Win) => lt
           /\ (a = Lose /\ b = Win) => lt
           /\ (a.tag = "Heuristic" /\ b.tag = "Heuristic")
                 => (lt <=> a.val < b.val)

\* Lose compared with the least heuristic value of the model
C14_Witness ==
    /\ ordOp.kind = "Score"
    /\ ordOp.a = Lose
    /\ ordOp.b = Heuristic(0 - MaxHeur)
    /\ ordOp.result = "Less"

(***************************************************************************)
(* SpecTT: one TranspositionTable under arbitrary get and insert calls,    *)
(* as in tests::test_tt (integer keys and values).                          *)
(***************************************************************************)
MaxDepthTag == 2
MaxCap == 2

\* the keys of tests::test_tt
TTKeys == {1, 2, 3}
TTVals == {"old", "new"}
TTDepths == 0..MaxDepthTag

\* history: k becomes the most recently accessed key
Touch(order, k) ==
    LET i == IF \E j \in 1..Len(order) : order[j] = k
             THEN CHOOSE j \in 1..Len(order) : order[j] = k ELSE 0
    IN Append(IF i = 0 THEN order
              ELSE [j \in 1..(Len(order) - 1) |->
                       IF j < i THEN order[j] ELSE order[j + 1]],
              k)

InitTT ==
    /\ \E n \in 1..MaxCap : tt = TTNew(n)
    /\ recency = <<>>
    /\ lastOp = NoOp
    /\ ordOp = NoOp
    /\ EngineInit(1)
    /\ answers = <<>>
    /\ sender = <<>> /\ receiver = <<>>
    /\ worker = IdleWorker /\ ctrl = IdleCtrl
    /\ hist = HistInit

\* tt.get(&k, d)
GetOp ==
    /\ \E k \in TTKeys, d \in TTDepths :
          LET g == TTGet(tt, k, d) IN
          /\ tt' = g.table
          /\ recency' = Touch(recency, k)
          /\ lastOp' = [kind |-> "get", key |-> k, depth |-> d,
                        val |-> None, result |-> g.result]
    /\ UNCHANGED <<ordOp, engineVars, driverVars, answers>>

\* tt.insert(k, v, d)
InsertOp ==
    /\ \E k \in TTKeys, v \in TTVals, d \in TTDepths :
          /\ tt' = TTInsert(tt, k, v, d)
          /\ recency' = Touch(recency, k)
          /\ lastOp' = [kind |-> "insert", key |-> k, depth |-> d,
                        val |-> Some(v), result |-> None]
    /\ UNCHANGED <<ordOp, engineVars, driverVars, answers>>

NextTT == GetOp \/ InsertOp

SpecTT == InitTT /\ [][NextTT]_vars

\* the entry stored for key k (k resident)
EntryOf(t, k) == t.entries[Find(t.entries, k)]

\* the resident key whose last access is the oldest
LeastRecentlyAccessed(t, order) ==
    order[CHOOSE i \in 1..Len(order) :
            /\ order[i] \in Resident(t)
            /\ \A j \in 1..(i - 1) : order[j] \notin Resident(t)]

\* C3 (depth guard): a get returns a result only if the key is stored with a
\* depth >= the requested depth, and then the stored result; a get asking
\* for more than the stored depth returns None.
C3_DepthGuard ==
    lastOp.kind = "get" =>
        /\ IsSome(lastOp.result) =>
              /\ lastOp.key \in Resident(tt)
              /\ EntryOf(tt, lastOp.key).depth >= lastOp.depth
              /\ EntryOf(tt, lastOp.key).val = Unwrap(lastOp.result)
        /\ (lastOp.key \in Resident(tt)
             /\ lastOp.depth > EntryOf(tt, lastOp.key).depth)
           => lastOp.result = None

\* a get refused for depth after a get served on the same table
C3_Witness ==
    /\ lastOp.kind = "get"
    /\ lastOp.result = None
    /\ lastOp.key \in Resident(tt)
    /\ EntryOf(tt, lastOp.key).depth = 1
    /\ lastOp.depth = 2
    /\ Len(tt.entries) = 2

\* C4 (LRU bound): the table never holds more than its capacity; an insert of
\* a key that is not resident into a full table evicts the least recently
\* accessed resident key and no other, and a get of the evicted key then
\* returns None for every depth.
C4_LruBound ==
    [][/\ Len(tt'.entries) <= tt'.capacity
       /\ (/\ Len(tt.entries) = tt.capacity
           /\ lastOp'.kind = "insert"
           /\ lastOp'.key \notin Resident(tt)
           /\ lastOp'.key \in Resident(tt'))
          => LET lra == LeastRecentlyAccessed(tt, recency) IN
             /\ Resident(tt') = (Resident(tt) \ {lra}) \cup {lastOp'.key}
             /\ \A d \in TTDepths : TTGet(tt', lra, d).result = None]_vars

\* a full table of two keys lost the one inserted last, because the other
\* was accessed after it
C4_Witness ==
    /\ tt.capacity = 2
    /\ Resident(tt) = {1, 3}
    /\ recency = <<2, 1, 3>>
    /\ lastOp.kind = "insert" /\ lastOp.key = 3
    /\ Find(tt.entries, 1) = 1

\* C5 (no depth regression): while a key stays resident its stored depth
\* never decreases, and an insert with a depth smaller than the stored one
\* leaves the stored result and depth as they were, so that a get at the old
\* depth still returns the old result.
C5_NoDepthRegression ==
    [][\A k \in Resident(tt) \cap Resident(tt') :
          /\ EntryOf(tt', k).depth >= EntryOf(tt, k).depth
          /\ (lastOp'.kind = "insert" /\ lastOp'.key = k
               /\ lastOp'.depth < EntryOf(tt, k).depth)
             => /\ EntryOf(tt', k) = EntryOf(tt, k)
                /\ TTGet(tt', k, EntryOf(tt, k).depth).result
                      = Some(EntryOf(tt, k).val)]_vars

\* a shallower insert of another value was just refused
C5_Witness ==
    /\ lastOp.kind = "insert"
    /\ lastOp.val = Some("new")
    /\ lastOp.depth = 1
    /\ lastOp.key \in Resident(tt)
    /\ EntryOf(tt, lastOp.key) = Entry(lastOp.key, "old", 2)

\* C18 (overwrite condition): an insert for a key stored with depth d
\* replaces the stored result and depth whenever its depth is >= d, d
\* included, and leaves the entry as it was only when its depth is < d.
C18_OverwriteCondition ==
    [][\A k \in Resident(tt) :
          (lastOp'.kind = "insert" /\ lastOp'.key = k)
          => /\ k \in Resident(tt')
             /\ EntryOf(tt', k) =
                   IF lastOp'.depth >= EntryOf(tt, k).depth
                   THEN Entry(k, Unwrap(lastOp'.val), lastOp'.depth)
                   ELSE EntryOf(tt, k)]_vars

(***************************************************************************)
(* SpecDriver: NonBlockingMinimax.  The controller calls                   *)
(* start_iterative_deepening and stop_iterative_deepening; the worker      *)
(* thread owns the engine and deepens ply by ply until a search is          *)
(* cancelled.  A ply beyond MaxDeepen is entered only when a stop token     *)
(* already waits, so that the ply counter stays bounded.                    *)
(***************************************************************************)
MaxDeepen == 2
MaxStarts == 2

DriverBoards ==
    {Stuck(FALSE, Heuristic(1)),
     Node(<<Leaf(Heuristic(1)), Leaf(Win)>>, Heuristic(0)),
     Node(<<Node(<<Leaf(Heuristic(1)), Leaf(Heuristic(-1))>>, Heuristic(1)),
            Leaf(Heuristic(-1))>>,
          Heuristic(0))}

MinimaxArgs(board, team) == [board |-> board, team |-> team]

InitDriver ==
    /\ \E n \in TableSizes : EngineInit(n)
    /\ sender = <<>> /\ receiver = <<>>
    /\ worker = IdleWorker /\ ctrl = IdleCtrl
    /\ hist = HistInit
    /\ answers = <<>>
    /\ IdleTT

\* NonBlockingMinimax::start_iterative_deepening
Start ==
    /\ ctrl.pc = "idle"
    /\ hist.starts < MaxStarts
    /\ \E b \in DriverBoards, t \in Team :
          sender' = Append(sender, MinimaxArgs(b, t))
    /\ hist' = [hist EXCEPT !.starts = @ + 1]
    /\ UNCHANGED <<ttVars, engineVars, answers, receiver, worker, ctrl>>

\* NonBlockingMinimax::stop_iterative_deepening: "self.stopper.send(())"
StopSend ==
    /\ ctrl.pc = "idle"
    /\ stopper' = stopper + 1
    /\ ctrl' = [ctrl EXCEPT !.pc = "stopping"]
    /\ hist' = [hist EXCEPT !.stops = @ + 1]
    /\ UNCHANGED <<ttVars, ally_ttable, enemy_ttable, stack, retval, outcome,
                   query, ghost, answers, sender, receiver, worker>>

\* NonBlockingMinimax::stop_iterative_deepening: "self.receiver.recv()"
StopRecv ==
    /\ ctrl.pc = "stopping"
    /\ receiver # <<>>
    /\ ctrl' = [pc |-> "idle", last |-> Some(Head(receiver))]
    /\ receiver' = Tail(receiver)
    /\ hist' = [hist EXCEPT !.replies = Append(@, Head(receiver))]
    /\ UNCHANGED <<ttVars, engineVars, answers, sender, worker>>

\* (mutant) the message sent last is received first
RecvNewest(chan) ==
    [msg |-> chan[Len(chan)], rest |-> SubSeq(chan, 1, Len(chan) - 1)]

\* Receiver::recv on a channel that holds a message: the oldest message
\* and the messages left behind
Recv(chan) == [msg |-> Head(chan), rest |-> Tail(chan)]

\* worker: "thread_receiver.recv()", then best = None and plies = 1
WorkerRecv ==
    /\ worker.pc = "recv"
    /\ sender # <<>>
    /\ worker' = [pc |-> "loop", args |-> Some(Recv(sender).msg),
                  best |-> None, plies |-> 1]
    /\ sender' = Recv(sender).rest
    /\ hist' = [hist EXCEPT !.served = @ + 1]
    /\ UNCHANGED <<ttVars, engineVars, answers, receiver, ctrl>>

\* worker: "minimax.minimax(&args.board, args.team, plies)" is called
WorkerSearch ==
    /\ worker.pc = "loop"
    /\ worker.plies <= MaxDeepen \/ stopper > 0
    /\ MinimaxCall(Unwrap(worker.args).board, Unwrap(worker.args).team,
                   worker.plies)
    /\ worker' = [worker EXCEPT !.pc = "search"]
    /\ UNCHANGED <<ttVars, answers, sender, receiver, ctrl, hist>>

\* (mutant) the worker ends a search without sending its reply
ReplyDropped(chan, best) == chan

\* worker: "thread_sender.send(best)"
Reply(chan, best) == Append(chan, best)

\* (mutant) the first completed ply is kept instead of the last
KeepBestFirst(best, result) == IF best = None THEN Some(result) ELSE best

\* worker: "best = Some(result)"
KeepBest(best, result) == Some(result)

\* worker: the match on the value of minimax(): a result is kept and the
\* next ply follows; None ends the loop and best is sent to the controller
WorkerMatch ==
    /\ worker.pc = "search"
    /\ outcome # <<>>
    /\ outcome' = <<>>
    /\ query' = None
    /\ IF IsSome(outcome[1])
       THEN /\ worker' = [worker EXCEPT
                            !.best = KeepBest(worker.best, Unwrap(outcome[1])),
                            !.plies = @ + 1,
                            !.pc = "loop"]
            /\ hist' = [hist EXCEPT !.plyLog = Append(@,
                            [search |-> hist.served, plies |-> worker.plies,
                             args |-> Unwrap(worker.args),
                             result |-> Unwrap(outcome[1])])]
            /\ UNCHANGED receiver
       ELSE /\ receiver' = Reply(receiver, worker.best)
            /\ worker' = [worker EXCEPT !.pc = "recv"]
            /\ UNCHANGED hist
    /\ UNCHANGED <<ttVars, ally_ttable, enemy_ttable, stopper, stack, retval,
                   ghost, answers, sender, ctrl>>

\* the worker thread: its loop and the engine it runs
WorkerStep ==
    WorkerRecv \/ WorkerSearch \/ Call \/ Return \/ MinimaxReturn \/ WorkerMatch

NextDriver ==
    \/ Start \/ StopSend \/ StopRecv
    \/ WorkerRecv \/ WorkerSearch \/ Call \/ Return \/ MinimaxReturn
    \/ WorkerMatch

SpecDriver == InitDriver /\ [][NextDriver]_vars

\* The liveness specification: the same driver, started on the deepest of
\* the boards only; the worker thread is scheduled, and a blocked recv() of
\* the controller returns once a reply is there.
LiveBoards ==
    {Node(<<Node(<<Leaf(Heuristic(1)), Leaf(Heuristic(-1))>>, Heuristic(1)),
            Leaf(Heuristic(-1))>>,
          Heuristic(0))}

StartLive ==
    /\ Start
    /\ \A i \in 1..Len(sender') : sender'[i].board \in LiveBoards

NextDriverLive ==
    \/ StartLive \/ StopSend \/ StopRecv
    \/ WorkerRecv \/ WorkerSearch \/ Call \/ Return \/ MinimaxReturn
    \/ WorkerMatch

SpecDriverFair ==
    /\ InitDriver
    /\ [][NextDriverLive]_vars
    /\ WF_vars(WorkerStep)
    /\ WF_vars(StopRecv)

\* The queueing specification: the same driver on the two shallow boards,
\* with the controller's calls logged: hist.started holds the arguments of
\* every start in the order of the calls, hist.stopAfter the number of
\* starts made before each stop.
QueueBoards ==
    {Stuck(FALSE, Heuristic(1)),
     Node(<<Leaf(Heuristic(1)), Leaf(Win)>>, Heuristic(0))}

\* NonBlockingMinimax::start_iterative_deepening, logged
StartQueued ==
    /\ ctrl.pc = "idle"
    /\ hist.starts < MaxStarts
    /\ \E b \in QueueBoards, t \in Team :
          /\ sender' = Append(sender, MinimaxArgs(b, t))
          /\ hist' = [hist EXCEPT !.starts = @ + 1,
                                  !.started = Append(@, MinimaxArgs(b, t))]
    /\ UNCHANGED <<ttVars, engineVars, answers, receiver, worker, ctrl>>

\* NonBlockingMinimax::stop_iterative_deepening: "self.stopper.send(())",
\* logged
StopSendQueued ==
    /\ ctrl.pc = "idle"
    /\ stopper' = stopper + 1
    /\ ctrl' = [ctrl EXCEPT !.pc = "stopping"]
    /\ hist' = [hist EXCEPT !.stops = @ + 1,
                            !.stopAfter = Append(@, hist.starts)]
    /\ UNCHANGED <<ttVars, ally_ttable, enemy_ttable, stack, retval, outcome,
                   query, ghost, answers, sender, receiver, worker>>

NextQueue ==
    \/ StartQueued \/ StopSendQueued \/ StopRecv
    \/ WorkerRecv \/ WorkerSearch \/ Call \/ Return \/ MinimaxReturn
    \/ WorkerMatch

SpecQueue == InitDriver /\ [][NextQueue]_vars

(***************************************************************************)
(* Claims about the driver (SpecDriver, SpecDriverFair, SpecQueue).        *)
(***************************************************************************)
\* the plies of the k-th search that ran to their end, in the order they did
SearchLog(k) == SelectSeq(hist.plyLog, LAMBDA e : e.search = k)

\* C2 (cancellation result): the plies a search completes are 1, 2, 3, ...
\* in this order, and the value a stop returns for it is None when no ply
\* completed and otherwise the result of the last (highest) completed ply,
\* never that of the cancelled one.
C2_CancellationResult ==
    \A k \in 1..Len(hist.replies) :
        LET log == SearchLog(k) IN
        /\ \A i \in 1..Len(log) : log[i].plies = i
        /\ hist.replies[k] =
              IF log = <<>> THEN None ELSE Some(log[Len(log)].result)

\* ply 1 completed, ply 2 was under way (a child of the root had been
\* explored with budget 1) when the stop arrived, and ply 1 was returned
C2_Witness ==
    /\ Len(hist.replies) = 1
    /\ Len(SearchLog(1)) = 1
    /\ hist.replies[1] = Some(SearchLog(1)[1].result)
    /\ worker.pc = "recv"
    /\ \E e \in ghost.explored :
          /\ e.plies = 1
          /\ e.board \in Related(Unwrap(worker.args).board)

\* every entry of either table is the result of a finished exploration
EntriesExplored ==
    \A side \in Team :
        \A i \in 1..Len(TableOf(side).entries) :
            LET e == TableOf(side).entries[i] IN
            [side |-> side, board |-> e.key, plies |-> e.depth,
             result |-> e.val] \in ghost.explored

\* C9 (cancellation leaves no partial entries): a step in which a call of
\* max / min returns None (it observed the stop, or its child was cancelled)
\* pops that call, pushes no sibling and leaves both tables as they were;
\* the tables only ever hold results of explorations that ran to their end.
C9_NoPartialEntries ==
    [][/\ (retval' = Some(None) /\ stack' # stack)
          => /\ stack' = Pop(stack)
             /\ ally_ttable' = ally_ttable
             /\ enemy_ttable' = enemy_ttable
       /\ EntriesExplored']_vars

\* a cancellation on its way up through a call that has a table entry from
\* an earlier ply and a sibling left to explore
C9_Witness ==
    /\ stack # <<>>
    /\ retval = Some(None)
    /\ Top.idx = 1 /\ Len(Top.moves) = 2
    /\ Top.board \in Resident(TableOf(Top.side))

\* C10 (stop liveness): a stop_iterative_deepening called while a started
\* search is not yet collected eventually returns.
C10_StopLiveness ==
    (ctrl.pc = "stopping" /\ hist.starts > Len(hist.replies))
        ~> (ctrl.pc = "idle")

\* a stop sent in the middle of a search has returned
C10_Witness ==
    /\ ctrl.pc = "idle"
    /\ Len(hist.replies) = 2
    /\ hist.replies[2] # None
    /\ worker.pc = "recv"

\* the searches the worker has ended: their replies collected or in flight
Ended == Len(hist.replies) + Len(receiver)

\* the search in progress has observed a stop token and is on its way out
Cancelling == retval = Some(None) \/ outcome = <<None>>

\* C21 (queued starts): the worker serves the starts in the order of the
\* calls: the k-th search it takes up, and every ply it completes for it,
\* has the arguments of the k-th start; the k-th stop returns the best of
\* that search (None when no ply completed); the stop tokens consumed are
\* as many as the searches ended or on their way out; and a search is taken up only when every
\* search before it has been stopped and its reply sent.
C21_QueuedStarts ==
    /\ hist.served <= Len(hist.started)
    /\ Len(sender) = Len(hist.started) - hist.served
    /\ \A i \in 1..Len(sender) : sender[i] = hist.started[hist.served + i]
    /\ hist.served >= 1 => worker.args = Some(hist.started[hist.served])
    /\ query # None =>
          /\ Unwrap(query).board = hist.started[hist.served].board
          /\ Unwrap(query).turn = hist.started[hist.served].team
    /\ \A i \in 1..Len(hist.plyLog) :
          hist.plyLog[i].args = hist.started[hist.plyLog[i].search]
    /\ \A k \in 1..Len(hist.replies) :
          LET log == SearchLog(k) IN
          hist.replies[k] =
              IF log = <<>> THEN None ELSE Some(log[Len(log)].result)
    /\ hist.stops - stopper = Ended + (IF Cancelling THEN 1 ELSE 0)
    /\ Ended = IF worker.pc = "recv" THEN hist.served ELSE hist.served - 1
    /\ hist.served <= hist.stops + 1

\* two starts with different arguments were queued before the first stop,
\* and both stops have returned a result
C21_Witness ==
    /\ Len(hist.replies) = 2
    /\ hist.stopAfter[1] = 2
    /\ hist.started[1] # hist.started[2]
    /\ hist.replies[1] # None
    /\ hist.replies[2] # None
    /\ hist.replies[1] # hist.replies[2]

\* the controller waits in stop_iterative_deepening although every search
\* it started has been collected
StopWithoutSearch ==
    ctrl.pc = "stopping" /\ hist.starts = Len(hist.replies)

\* the worker waits for work on an empty work channel, no reply is under
\* way, the stop token waits in the stop channel, and no thread can step
BlockedForever ==
    /\ worker.pc = "recv" /\ sender = <<>>
    /\ receiver = <<>>
    /\ stack = <<>> /\ retval = <<>> /\ outcome = <<>>
    /\ stopper = 1
    /\ ~ENABLED NextDriver

\* a search taken up while a stop token waits starts at ply 1 without a
\* best, meets the token at the entry of the root call of that ply, which
\* consumes it and returns None without a recursive call, and the worker
\* replies None
PendingTokenCancels ==
    /\ (worker.pc = "recv" /\ worker'.pc = "loop" /\ stopper > 0)
          => /\ worker'.plies = 1 /\ worker'.best = None
             /\ stopper' = stopper
    /\ (worker.pc = "loop" /\ worker.plies = 1 /\ stopper > 0)
          => /\ stopper' >= stopper
             /\ worker' # worker
                   => /\ worker'.pc = "search" /\ worker'.plies = 1
                      /\ worker'.best = None
                      /\ Len(stack') = 1 /\ stack'[1].pc = "entry"
    /\ (Len(stack) = 1 /\ Top.pc = "entry" /\ stopper > 0 /\ stack' # stack)
          => /\ stack' = <<>>
             /\ retval' = Some(None)
             /\ stopper' = stopper - 1
             /\ ghost'.descents = ghost.descents
    /\ (Cancelling /\ worker.plies = 1 /\ worker' # worker)
          => /\ receiver' = Append(receiver, None)
             /\ worker'.pc = "recv"

\* C22 (stop without a search in flight): once stop_iterative_deepening
\* has sent its token while no started search is uncollected, the worker
\* is blocked on the work channel, the controller on the result channel,
\* the token stays in the stop channel and nothing can change any more; and
\* a token that waits when a search is taken up cancels that search at its
\* root call, so that its reply is None.
C22_StopWithoutSearch ==
    /\ [](StopWithoutSearch => BlockedForever)
    /\ [][PendingTokenCancels]_vars

\* a search was started and stopped before the worker took it up, so that
\* the token cancelled it at the root call of ply 1 and the reply was None;
\* the next stop found nothing in flight and left its token in the channel
C22_Witness ==
    /\ StopWithoutSearch
    /\ hist.starts = 1 /\ hist.stops = 2
    /\ hist.replies = <<None>>
    /\ ghost.descents = 0
    /\ stopper = 1

=============================================================================
